---- MODULE Spec2Model ----
(***************************************************************************)
(* Model of utils.py of ilbo_recomm: the batch processor                   *)
(* (process_dataframe), the retry driver (retry_failed_rows), the single   *)
(* row tester (process_single_row), the response parser                    *)
(* (process_response_content) and the completion client (call_clova_api).  *)
(*                                                                         *)
(* Representation choices:                                                 *)
(*  - a text whose only use is its length and slicing (row['content'],     *)
(*    the user-message context) is represented by its length;              *)
(*  - an error text is represented by the set of tokens it contains, so    *)
(*    that the substring test  '429' in error  is token membership;        *)
(*  - a DataFrame is the sequence of its rows; result_df also carries its  *)
(*    index labels and whether it has columns (pd.DataFrame([]) has none); *)
(*  - the fields title, link, label and the time stamps are copied through *)
(*    untouched by the code and are left out of the rows;                  *)
(*  - the Korean JSON keys and line labels are written in ASCII:           *)
(*    "summary" (yoyak), "pred" (bunryu), "reason" (geungeo).              *)
(***************************************************************************)
EXTENDS Integers, Sequences, FiniteSets, TLC

\* ---------------------------------------------------------------- bounds
MaxRows == 2
MaxDocid == 2
MaxRetries == 2

\* ------------------------------------------------------ program constants
TruncateLimit == 6500
SleepSeconds == 6
retry_wait_time == 6

\* ------------------------------------------------------------ value sets
\* None where the code compares a string column with nothing
None == "None"

Categories == {"difficulty", "tone"}
Docids == 1..MaxDocid

\* (content length, len_context) of a row: a short text, a text just over the
\* truncation limit, and the same long text with a len_context that was not
\* recomputed (fetch_article_content returns 0 with its error text)
ContentChoices ==
    { <<3, 3>>, <<TruncateLimit + 1, TruncateLimit + 1>>, <<TruncateLimit + 1, 0>> }

\* a row of df: len_context is a separate column; nothing in the batch code
\* recomputes it from content
DfRows ==
    { [docid |-> d, category |-> c, content |-> n[1], len_context |-> n[2]] :
        d \in Docids, c \in Categories, n \in ContentChoices }

SeqsUpTo(S, n) == UNION { [1..k -> S] : k \in 0..n }

\* ------------------------------------------------------------- utilities
Min(a, b) == IF a < b THEN a ELSE b

MaxOf(S) == CHOOSE x \in S : \A y \in S : y <= x

Take(s, k) == SubSeq(s, 1, Min(k, Len(s)))

Drop(s, k) == SubSeq(s, Min(k, Len(s)) + 1, Len(s))

\* text[:n] on a text given by its length
Slice(text, n) == Min(text, n)

\* dict.get(key, default)
Get(dict, key, default) == IF key \in DOMAIN dict THEN dict[key] ELSE default

Contains(text, token) == token \in text

\* ------------------------------------------------------ completion client
\* the texts the code builds, as the sets of tokens they contain
ApiFailedText(status_code, text) == {"API call failed", status_code} \cup text

TooManyRequestsText == {"API call failed", "429", "Too Many Requests"}

NoMatchText == {"No matching row found"}

KeyMissingText == {"Unexpected response format: 'result' or 'message' key missing"}

NotValidJsonText == {"Unexpected content format: Not a valid JSON"}

KeyErrorText == {"'docid'"}

IndexErrorText == {"list index out of range"}

\* completion contents: a JSON object, and plain text with the three fields
\* on lines 0, 2 and 4; a line is the sequence of its tokens
NoDict == << >>

JsonContent ==
    [ is_json |-> TRUE,
      json    |-> [summary |-> "s", pred |-> "p", reason |-> "r"],
      lines   |-> << <<"{...}">> >> ]

TextContent ==
    [ is_json |-> FALSE,
      json    |-> NoDict,
      lines   |-> << <<"summary:", "s">>, <<>>, <<"pred:", "p">>, <<>>,
                     <<"reason:", "r">> >> ]

EmptyContent == [ is_json |-> FALSE, json |-> NoDict, lines |-> << <<>> >> ]

Completion(content) ==
    [ status_code |-> "200", text |-> {"{...}"}, is_json |-> TRUE,
      json |-> [result |-> [message |-> [content |-> content]]] ]

HttpError(status_code, text) ==
    [ status_code |-> status_code, text |-> text, is_json |-> FALSE,
      json |-> NoDict ]

\* the HTTP responses the endpoint is let to give
Replies ==
    { Completion(JsonContent), Completion(TextContent),
      HttpError("429", {}), HttpError("400", {"40005"}),
      HttpError("500", {}) }

\* an endpoint whose error bodies name a policy code, alone or together
\* with the digits 429
RepliesAnyBody ==
    { Completion(JsonContent), HttpError("400", {"40005"}),
      HttpError("400", {"40005", "429"}) }

\* call_clova_api: (response_json, error) of an HTTP response; an error of
\* None is the empty text, which  if error:  treats alike
call_clova_api(response) ==
    IF response.status_code # "200"
    THEN [response_json |-> NoDict,
          error |-> ApiFailedText(response.status_code, response.text)]
    ELSE IF response.text = {}
    THEN [response_json |-> NoDict, error |-> {"Empty response received"}]
    ELSE IF ~response.is_json
    THEN [response_json |-> NoDict,
          error |-> {"JSON decoding error"} \cup response.text]
    ELSE [response_json |-> response.json, error |-> {}]

\* ------------------------------------------------------- response parser
\* faulty variant: the keys of pred and reason taken for one another
process_response_content_mixed(result_content) ==
    IF ~result_content.is_json
    THEN [raised |-> NotValidJsonText, summary |-> "", pred |-> "", reason |-> ""]
    ELSE [raised  |-> {},
          summary |-> Get(result_content.json, "summary", ""),
          pred    |-> Get(result_content.json, "reason", ""),
          reason  |-> Get(result_content.json, "pred", "")]

\* process_response_content: the three fields of a JSON object, ValueError
\* for anything json.loads rejects
process_response_content(result_content) ==
    IF ~result_content.is_json
    THEN [raised |-> NotValidJsonText, summary |-> "", pred |-> "", reason |-> ""]
    ELSE [raised  |-> {},
          summary |-> Get(result_content.json, "summary", ""),
          pred    |-> Get(result_content.json, "pred", ""),
          reason  |-> Get(result_content.json, "reason", "")]

\* the user-message context of a row: content, cut to the first 6500
\* characters when the len_context column exceeds 6500
user_context(row) ==
    IF row.len_context > TruncateLimit
    THEN Slice(row.content, TruncateLimit)
    ELSE row.content

HasResultMessage(response_json) ==
    /\ "result" \in DOMAIN response_json
    /\ "message" \in DOMAIN response_json.result

\* ------------------------------------------------------------ data frames
\* pd.DataFrame(records): no columns when there is no record
DataFrame(records) ==
    [ columns |-> records # << >>,
      index   |-> [i \in 1..Len(records) |-> i - 1],
      rows    |-> records ]

result_data(row, len_context, parsed) ==
    [ docid       |-> row.docid,
      category    |-> row.category,
      content     |-> row.content,
      len_content |-> len_context,
      pred        |-> parsed.pred,
      reason      |-> parsed.reason,
      summary     |-> parsed.summary ]

error_record(docid, category, text, stage) ==
    [ docid |-> docid, category |-> category, errors |-> text,
      error_stage |-> stage ]

log_record(docid, category, status) ==
    [ docid |-> docid, category |-> category, status |-> status ]

\* ------------------------------------------------- batch processor (pure)
\* one pass of the body of the for loop of process_dataframe, up to the
\* sleep: the record it appends to results or to errors
BatchError(row, category, text) ==
    [ results |-> << >>,
      errors  |-> << error_record(row.docid, category, text, None) >> ]

process_dataframe_body(row, category, response) ==
    LET api == call_clova_api(response)
    IN  IF api.error # {}
        THEN BatchError(row, category, api.error)
        ELSE IF ~HasResultMessage(api.response_json)
        THEN BatchError(row, category, KeyMissingText)
        ELSE LET result_content ==
                     Get(api.response_json.result.message, "content", EmptyContent)
                 parsed == process_response_content(result_content)
             IN  IF parsed.raised # {}
                 THEN BatchError(row, category,
                                 {"Failed to process content"} \cup parsed.raised)
                 ELSE [ results |-> << result_data(
                                        [row EXCEPT !.category = category],
                                        row.len_context, parsed) >>,
                        errors  |-> << >> ]

\* --------------------------------------------------- retry driver (pure)
\* faulty variant: the filter on docid left out, so the position is always
\* past the last row
original_index_unfiltered(frame, docid) ==
    IF frame.rows = << >>
    THEN 0
    ELSE MaxOf({ frame.index[i] : i \in 1..Len(frame.rows) }) + 1

\* result_df[result_df['docid'] < docid].index.max() + 1, and 0 when no row
\* has a smaller docid (the maximum of an empty index is NaN)
original_index(frame, docid) ==
    LET smaller == { i \in 1..Len(frame.rows) : frame.rows[i].docid < docid }
    IN  IF smaller = {}
        THEN 0
        ELSE MaxOf({ frame.index[i] : i \in smaller }) + 1

\* faulty variant: the new row takes the place of the row at position k
insert_row_overwrites(frame, k, data) ==
    DataFrame(Take(frame.rows, k) \o << data >> \o Drop(frame.rows, k + 1))

\* pd.concat([iloc[:k], new row, iloc[k:]]).reset_index(drop=True)
insert_row(frame, k, data) ==
    DataFrame(Take(frame.rows, k) \o << data >> \o Drop(frame.rows, k))

\* faulty variant: the except branch logs the failure and keeps no error record
RetryRaised_lost(frame, error_row, text, slept_before) ==
    [ result_df   |-> frame,
      new_errors  |-> << >>,
      logs        |-> << log_record(error_row.docid, error_row.category, "Error") >>,
      sleeps      |-> slept_before \o << retry_wait_time >> ]

\* an exception caught at line 331: error record, Error log, then the sleep
\* of line 350 after whatever was slept before the raise
RetryRaised(frame, error_row, text, slept_before) ==
    [ result_df   |-> frame,
      new_errors  |-> << error_record(error_row.docid, error_row.category,
                                      text, "Retry") >>,
      logs        |-> << log_record(error_row.docid, error_row.category, "Error") >>,
      sleeps      |-> slept_before \o << retry_wait_time >> ]

\* faulty variant: the skipped row is logged and dropped from the error set
RetryContinue_lost(frame, error_row, text) ==
    [ result_df   |-> frame,
      new_errors  |-> << >>,
      logs        |-> << log_record(error_row.docid, error_row.category, "Error") >>,
      sleeps      |-> << >> ]

\* the two branches that end in  continue : error record and Error log, and
\* the sleep of line 350 is not reached
RetryContinue(frame, error_row, text) ==
    [ result_df   |-> frame,
      new_errors  |-> << error_record(error_row.docid, error_row.category,
                                      text, "Retry") >>,
      logs        |-> << log_record(error_row.docid, error_row.category, "Error") >>,
      sleeps      |-> << >> ]

\* faulty variant: the category left out of the lookup
matching_rows_docid_only(frame, error_row) ==
    SelectSeq(frame, LAMBDA r : r.docid = error_row.docid)

matching_rows(frame, error_row) ==
    SelectSeq(frame, LAMBDA r : /\ r.docid = error_row.docid
                                /\ r.category = error_row.category)

\* the body of the for loop of retry_failed_rows for an error row that has a
\* matching row, from the API call on
retry_body(row, error_row, frame, response) ==
    LET api == call_clova_api(response)
    IN  IF api.error # {}
        THEN IF Contains(api.error, "429")
             THEN RetryRaised(frame, error_row, TooManyRequestsText,
                              << retry_wait_time >>)
             ELSE IF Contains(api.error, "40005") \/ Contains(api.error, "40006")
             THEN RetryContinue(frame, error_row, api.error)
             ELSE RetryRaised(frame, error_row, api.error, << >>)
        ELSE IF DOMAIN api.response_json = {}
        THEN RetryRaised(frame, error_row, {"Received empty response from the API"}, << >>)
        ELSE IF ~HasResultMessage(api.response_json)
        THEN RetryRaised(frame, error_row, KeyMissingText, << >>)
        ELSE LET result_content ==
                     Get(api.response_json.result.message, "content", EmptyContent)
                 parsed == process_response_content(result_content)
             IN  IF parsed.raised # {}
                 THEN RetryRaised(frame, error_row, parsed.raised, << >>)
                 ELSE IF ~frame.columns
                 THEN RetryRaised(frame, error_row, KeyErrorText, << >>)
                 ELSE [ result_df  |-> insert_row(frame,
                                          original_index(frame, row.docid),
                                          result_data(row, row.len_context, parsed)),
                        new_errors |-> << >>,
                        logs       |-> << log_record(row.docid, row.category,
                                                     "Success") >>,
                        sleeps     |-> << retry_wait_time >> ]

\* ---------------------------------------------------- single row (pure)
\* line.replace(label, "").strip()
field_of_line(line, label) ==
    LET kept == SelectSeq(line, LAMBDA t : t # label)
    IN  IF kept = << >> THEN "" ELSE kept[1]

\* what process_single_row shows for a row: the three fields, or the error
process_single_row_body(response) ==
    LET api == call_clova_api(response)
        failed(text) == [error |-> text, summary |-> "", pred |-> "", reason |-> ""]
    IN  IF api.error # {}
        THEN failed(api.error)
        ELSE IF ~HasResultMessage(api.response_json)
        THEN failed(KeyMissingText)
        ELSE LET result_content ==
                     Get(api.response_json.result.message, "content", EmptyContent)
                 lines == result_content.lines
             IN  IF result_content.is_json
                 THEN [ error   |-> {},
                        summary |-> Get(result_content.json, "summary", ""),
                        pred    |-> Get(result_content.json, "pred", ""),
                        reason  |-> Get(result_content.json, "reason", "") ]
                 ELSE IF Len(lines) < 5
                 THEN failed(IndexErrorText)
                 ELSE [ error   |-> {},
                        summary |-> field_of_line(lines[1], "summary:"),
                        pred    |-> field_of_line(lines[3], "pred:"),
                        reason  |-> field_of_line(lines[5], "reason:") ]

\* ------------------------------------------------------------------ state
VARIABLES
    pc,                    \* where the caller and the running function are
    df,                    \* the input data frame
    category,              \* process_dataframe's category argument
    idx,                   \* position of the running for loop (1-based)
    results, errors,       \* process_dataframe's lists
    result_df, errors_df,  \* the frames returned, passed on and rebound
    max_retries, retry_count,
    all_logs, current_attempt_logs, new_errors,
    console,               \* what process_single_row showed last
    visited,               \* history: the rows process_dataframe's loop has taken
    entry,                 \* history: the frames retry_failed_rows was called with
    last_call,             \* history: the latest API call of the running function
    slept,                 \* history: seconds slept since that call
    api_calls,             \* history: API calls of the running function, per (docid, category)
    attempt_sizes          \* history: len(errors_df) at the start of each attempt

vars ==
    << pc, df, category, idx, results, errors, result_df, errors_df,
       max_retries, retry_count, all_logs, current_attempt_logs, new_errors,
       console, visited, entry, last_call, slept, api_calls, attempt_sizes >>

Keys == Docids \X Categories

NoCalls == [k \in Keys |-> 0]

key_of(r) == << r.docid, r.category >>

\* the record of an API call: the row it was made for, the user-message
\* context sent, the response, the pass (retry_count, loop position) that made
\* it, and how long the function slept since its previous call, if any
api_call(row, response, attempt, position) ==
    [ docid |-> row.docid, category |-> row.category,
      context |-> user_context(row), response |-> response,
      attempt |-> attempt, position |-> position,
      first |-> last_call = << >>, gap |-> slept ]

df_filtered == SelectSeq(df, LAMBDA r : r.category = category)

Sum(s) == IF s = << >> THEN 0 ELSE IF Len(s) = 1 THEN s[1] ELSE s[1] + s[2]

\* ------------------------------------------------------------------- Init
PlainRows == { r \in DfRows : r.content = 3 }

\* a frame in which no (docid, category) occurs twice
UniqueKeys(frame) ==
    \A i, j \in 1..Len(frame) :
        (frame[i].docid = frame[j].docid /\ frame[i].category = frame[j].category)
            => i = j

InputFrames == { f \in SeqsUpTo(PlainRows, MaxRows) : UniqueKeys(f) }

\* frames whose rows also vary in content length and len_context
ContextFrames == { f \in SeqsUpTo(DfRows, MaxRows) : UniqueKeys(f) }

InitWith(frames) ==
    /\ pc = "start"
    /\ df \in frames
    /\ category = None
    /\ idx = 1
    /\ results = << >>
    /\ errors = << >>
    /\ result_df = DataFrame(<< >>)
    /\ errors_df = << >>
    /\ max_retries = 0
    /\ retry_count = 0
    /\ all_logs = << >>
    /\ current_attempt_logs = << >>
    /\ new_errors = << >>
    /\ console = << >>
    /\ visited = << >>
    /\ entry = << >>
    /\ last_call = << >>
    /\ slept = 0
    /\ api_calls = NoCalls
    /\ attempt_sizes = << >>

Init == InitWith(InputFrames)

InitContext == InitWith(ContextFrames)

\* ------------------------------------------------------ process_dataframe
process_dataframe_call ==
    /\ pc = "start"
    /\ \E c \in Categories : category' = c
    /\ pc' = "process_for"
    /\ idx' = 1
    /\ results' = << >>
    /\ errors' = << >>
    /\ visited' = << >>
    /\ last_call' = << >>
    /\ slept' = 0
    /\ api_calls' = NoCalls
    /\ UNCHANGED << df, result_df, errors_df, max_retries, retry_count, all_logs,
                    current_attempt_logs, new_errors, console, entry,
                    attempt_sizes >>

\* faulty variant: an errored row ends the loop
process_dataframe_row_stops ==
    /\ pc = "process_for"
    /\ idx <= Len(df_filtered)
    /\ \E response \in Replies :
         LET row == df_filtered[idx]
             out == process_dataframe_body(row, category, response)
         IN  /\ results' = results \o out.results
             /\ errors' = errors \o out.errors
             /\ visited' = Append(visited, row)
             /\ last_call' = << api_call(row, response, 0, idx) >>
             /\ api_calls' = [api_calls EXCEPT ![key_of(row)] = @ + 1]
             /\ idx' = IF out.errors # << >> THEN Len(df_filtered) + 1 ELSE idx + 1
    /\ slept' = SleepSeconds
    /\ UNCHANGED << pc, df, category, result_df, errors_df, max_retries,
                    retry_count, all_logs, current_attempt_logs, new_errors,
                    console, entry,
                    attempt_sizes >>

process_dataframe_row ==
    /\ pc = "process_for"
    /\ idx <= Len(df_filtered)
    /\ \E response \in Replies :
         LET row == df_filtered[idx]
             out == process_dataframe_body(row, category, response)
         IN  /\ results' = results \o out.results
             /\ errors' = errors \o out.errors
             /\ visited' = Append(visited, row)
             /\ last_call' = << api_call(row, response, 0, idx) >>
             /\ api_calls' = [api_calls EXCEPT ![key_of(row)] = @ + 1]
    /\ slept' = SleepSeconds
    /\ idx' = idx + 1
    /\ UNCHANGED << pc, df, category, result_df, errors_df, max_retries,
                    retry_count, all_logs, current_attempt_logs, new_errors,
                    console, entry,
                    attempt_sizes >>

process_dataframe_return ==
    /\ pc = "process_for"
    /\ idx > Len(df_filtered)
    /\ result_df' = DataFrame(results)
    /\ errors_df' = errors
    /\ pc' = "have_outputs"
    /\ results' = << >>
    /\ errors' = << >>
    /\ UNCHANGED << df, category, idx, max_retries, retry_count,
                    all_logs, current_attempt_logs, new_errors, console,
                    visited, entry, last_call, slept, api_calls,
                    attempt_sizes >>

\* ------------------------------------------------------ retry_failed_rows
retry_failed_rows_call ==
    /\ pc = "have_outputs"
    /\ \E m \in 0..MaxRetries : max_retries' = m
    /\ retry_count' = 0
    /\ all_logs' = << >>
    /\ current_attempt_logs' = << >>
    /\ new_errors' = << >>
    /\ entry' = << [result_df |-> result_df, errors_df |-> [i \in 1..Len(errors_df) |-> key_of(errors_df[i])]] >>
    /\ last_call' = << >>
    /\ slept' = 0
    /\ api_calls' = NoCalls
    /\ attempt_sizes' = << >>
    /\ pc' = "retry_while"
    /\ UNCHANGED << df, category, idx, results, errors, result_df, errors_df,
                    console, visited >>

\* faulty variant: the loop test admits one attempt too many
retry_attempt_begin_one_more ==
    /\ pc = "retry_while"
    /\ errors_df # << >>
    /\ retry_count <= max_retries
    /\ retry_count' = retry_count + 1
    /\ attempt_sizes' = Append(attempt_sizes, Len(errors_df))
    /\ current_attempt_logs' = << >>
    /\ new_errors' = << >>
    /\ idx' = 1
    /\ pc' = "retry_for"
    /\ UNCHANGED << df, category, results, errors, result_df, errors_df,
                    max_retries, all_logs, console, visited, entry,
                    last_call, slept, api_calls >>

\* faulty variant: the loop test does not look at the error set
retry_attempt_begin_on_empty ==
    /\ pc = "retry_while"
    /\ retry_count < max_retries
    /\ retry_count' = retry_count + 1
    /\ attempt_sizes' = Append(attempt_sizes, Len(errors_df))
    /\ current_attempt_logs' = << >>
    /\ new_errors' = << >>
    /\ idx' = 1
    /\ pc' = "retry_for"
    /\ UNCHANGED << df, category, results, errors, result_df, errors_df,
                    max_retries, all_logs, console, visited, entry,
                    last_call, slept, api_calls >>

retry_attempt_begin ==
    /\ pc = "retry_while"
    /\ errors_df # << >>
    /\ retry_count < max_retries
    /\ retry_count' = retry_count + 1
    /\ attempt_sizes' = Append(attempt_sizes, Len(errors_df))
    /\ current_attempt_logs' = << >>
    /\ new_errors' = << >>
    /\ idx' = 1
    /\ pc' = "retry_for"
    /\ UNCHANGED << df, category, results, errors, result_df, errors_df,
                    max_retries, all_logs, console, visited, entry,
                    last_call, slept, api_calls >>

\* one pass of the body of the for loop, the endpoint answering with one of
\* replies: an error row without a matching row in df is logged and carried
\* over, and no API call is made for it
retry_row_replying(replies) ==
    /\ pc = "retry_for"
    /\ idx <= Len(errors_df)
    /\ \E response \in replies :
         LET error_row == errors_df[idx]
             found == matching_rows(df, error_row)
             out == IF found = << >>
                    THEN RetryContinue(result_df, error_row, NoMatchText)
                    ELSE retry_body(found[1], error_row, result_df, response)
         IN  /\ result_df' = out.result_df
             /\ new_errors' = new_errors \o out.new_errors
             /\ current_attempt_logs' = current_attempt_logs \o out.logs
             /\ IF found = << >>
                THEN UNCHANGED << last_call, api_calls, slept >>
                ELSE /\ last_call' = << api_call(found[1], response, retry_count, idx) >>
                     /\ api_calls' = [api_calls EXCEPT ![key_of(found[1])] = @ + 1]
                     /\ slept' = Sum(out.sleeps)
    /\ idx' = idx + 1
    /\ UNCHANGED << pc, df, category, results, errors, errors_df, max_retries,
                    retry_count, all_logs, console, visited, entry,
                    attempt_sizes >>

retry_row == retry_row_replying(Replies)

\* the same pass with an endpoint that also answers with error bodies naming
\* more than one code
retry_row_any_reply == retry_row_replying(RepliesAnyBody)

\* faulty variant: the log of the attempt takes the place of the whole log
retry_attempt_end_last_logs ==
    /\ pc = "retry_for"
    /\ idx > Len(errors_df)
    /\ all_logs' = current_attempt_logs
    /\ errors_df' = new_errors
    /\ pc' = "retry_while"
    /\ UNCHANGED << df, category, idx, results, errors, result_df, max_retries,
                    retry_count, current_attempt_logs, new_errors, console,
                    visited, entry, last_call, slept, api_calls,
                    attempt_sizes >>

\* faulty variant: the new errors are added to the error set, not put in
\* its place
retry_attempt_end_appends ==
    /\ pc = "retry_for"
    /\ idx > Len(errors_df)
    /\ all_logs' = all_logs \o current_attempt_logs
    /\ errors_df' = errors_df \o new_errors
    /\ pc' = "retry_while"
    /\ UNCHANGED << df, category, idx, results, errors, result_df, max_retries,
                    retry_count, current_attempt_logs, new_errors, console,
                    visited, entry, last_call, slept, api_calls,
                    attempt_sizes >>

retry_attempt_end ==
    /\ pc = "retry_for"
    /\ idx > Len(errors_df)
    /\ all_logs' = all_logs \o current_attempt_logs
    /\ errors_df' = new_errors
    /\ pc' = "retry_while"
    /\ UNCHANGED << df, category, idx, results, errors, result_df, max_retries,
                    retry_count, current_attempt_logs, new_errors, console,
                    visited, entry, last_call, slept, api_calls,
                    attempt_sizes >>

retry_failed_rows_return ==
    /\ pc = "retry_while"
    /\ ~(errors_df # << >> /\ retry_count < max_retries)
    /\ pc' = "returned"
    /\ UNCHANGED << df, category, idx, results, errors, result_df, errors_df,
                    max_retries, retry_count, all_logs, current_attempt_logs,
                    new_errors, console, visited, entry, last_call,
                    slept, api_calls,
                    attempt_sizes >>

\* ----------------------------------------------------- process_single_row
process_single_row ==
    /\ pc = "start"
    /\ \E i \in 1..Len(df), response \in Replies :
         /\ console' = << process_single_row_body(response) >>
         /\ last_call' = << api_call(df[i], response, 0, i) >>
         /\ api_calls' = [NoCalls EXCEPT ![key_of(df[i])] = 1]
    /\ slept' = 0
    /\ pc' = "single_done"
    /\ UNCHANGED << df, category, idx, results, errors, result_df, errors_df,
                    max_retries, retry_count, all_logs, current_attempt_logs,
                    new_errors, visited, entry,
                    attempt_sizes >>

Next ==
    \/ process_dataframe_call
    \/ process_dataframe_row
    \/ process_dataframe_return
    \/ retry_failed_rows_call
    \/ retry_attempt_begin
    \/ retry_row
    \/ retry_attempt_end
    \/ retry_failed_rows_return
    \/ process_single_row

Spec == Init /\ [][Next]_vars

\* the same program on frames whose content lengths and len_context vary
SpecContext == InitContext /\ [][Next]_vars

\* ----------------------------------------- retry_failed_rows called alone
\* retry_failed_rows takes df, result_df and errors_df as arguments; here it
\* is called on frames that need not come from one run of process_dataframe
KeyRank(k) == 2 * k[1] + (IF k[2] = "tone" THEN 1 ELSE 0)

NonDecreasing(keys) ==
    \A i, j \in 1..Len(keys) : i < j => KeyRank(keys[i]) <= KeyRank(keys[j])

\* the original frame: one row for every (docid, category) but the last
OriginalFrame ==
    [ i \in 1..(2 * MaxDocid - 1) |->
        [ docid |-> (i + 1) \div 2,
          category |-> IF i % 2 = 1 THEN "difficulty" ELSE "tone",
          content |-> 3, len_context |-> 3 ] ]

\* a result row and an error record as an earlier run of process_dataframe
\* leaves them; the row's fields are of that run's completion
entry_result(k) ==
    result_data([docid |-> k[1], category |-> k[2], content |-> 3],
                3, [summary |-> "s0", pred |-> "p0", reason |-> "r0"])

entry_error(k) == error_record(k[1], k[2], ApiFailedText("500", {}), None)

\* the keys of the result rows and of the error rows passed in: result rows
\* in any order, error rows in key order, either with repetitions
EntryKeys ==
    { p \in SeqsUpTo(Keys, MaxRows) \X SeqsUpTo(Keys, MaxRows) :
        /\ Len(p[1]) + Len(p[2]) <= MaxRows + 1
        /\ NonDecreasing(p[2]) }

InitRetry ==
    /\ pc = "have_outputs"
    /\ df = OriginalFrame
    /\ category = None
    /\ idx = 1
    /\ results = << >>
    /\ errors = << >>
    /\ \E p \in EntryKeys :
         /\ result_df = DataFrame([i \in 1..Len(p[1]) |-> entry_result(p[1][i])])
         /\ errors_df = [i \in 1..Len(p[2]) |-> entry_error(p[2][i])]
    /\ max_retries = 0
    /\ retry_count = 0
    /\ all_logs = << >>
    /\ current_attempt_logs = << >>
    /\ new_errors = << >>
    /\ console = << >>
    /\ visited = << >>
    /\ entry = << >>
    /\ last_call = << >>
    /\ slept = 0
    /\ api_calls = NoCalls
    /\ attempt_sizes = << >>

NextRetry ==
    \/ retry_failed_rows_call
    \/ retry_attempt_begin
    \/ retry_row_any_reply
    \/ retry_attempt_end
    \/ retry_failed_rows_return

SpecRetry == InitRetry /\ [][NextRetry]_vars

\* ------------------------------------------------------------ properties
Last(s) == s[Len(s)]

InRetry == pc \in {"retry_while", "retry_for", "returned"}

\* the pass of process_dataframe's loop that just ended made the latest call
BatchJustCalled ==
    /\ pc = "process_for"
    /\ idx > 1
    /\ last_call # << >>
    /\ last_call[1].attempt = 0
    /\ last_call[1].position = idx - 1

\* the pass of retry_failed_rows' loop that just ended, for errors_df[idx - 1],
\* called the API
RetryJustCalled ==
    /\ pc = "retry_for"
    /\ idx > 1
    /\ last_call # << >>
    /\ last_call[1].attempt = retry_count
    /\ last_call[1].position = idx - 1

PermanentText(text) == Contains(text, "40005") \/ Contains(text, "40006")

\* the error row the pass that just ended was for carries, from the previous
\* attempt of this invocation, an API error text naming 40005 or 40006
PreviousAttemptPermanent ==
    /\ pc = "retry_for"
    /\ idx > 1
    /\ errors_df[idx - 1].error_stage = "Retry"
    /\ PermanentText(errors_df[idx - 1].errors)

\* C1: in retry_failed_rows, once the API call for an error row has returned
\* an error text containing 40005 or 40006, no later attempt of the same
\* invocation calls the API for that row.
C1_PermanentNeverRetried == PreviousAttemptPermanent => ~RetryJustCalled

\* C2: the user-message context of every API call made by process_dataframe,
\* retry_failed_rows and process_single_row has at most 6500 characters,
\* whatever the content and the len_context column of the row.
C2_ContextWithinLimit ==
    last_call # << >> => last_call[1].context <= TruncateLimit

\* C3: between two consecutive API calls of a run of process_dataframe or
\* retry_failed_rows the function has slept at least 6 seconds, whatever the
\* outcome of the first of the two calls.
C3_SleepBetweenCalls ==
    (last_call # << >> /\ ~last_call[1].first) => last_call[1].gap >= SleepSeconds

RECURSIVE RowsOfCategory(_, _)
RowsOfCategory(frame, c) ==
    IF frame = << >>
    THEN << >>
    ELSE (IF Head(frame).category = c THEN << Head(frame) >> ELSE << >>)
         \o RowsOfCategory(Tail(frame), c)

EntryTotal == Len(entry[1].result_df.rows) + Len(entry[1].errors_df)

\* C4: every attempt of retry_failed_rows keeps the number of result rows plus
\* the number of error rows constant (within an attempt: result rows, errors
\* collected so far and error rows still to visit), and at its return after
\* process_dataframe the sum is the number of input rows of the category.
C4_CountPreserved ==
    /\ pc \in {"retry_while", "returned"} =>
           Len(result_df.rows) + Len(errors_df) = EntryTotal
    /\ pc = "retry_for" =>
           Len(result_df.rows) + Len(new_errors) + (Len(errors_df) - (idx - 1))
               = EntryTotal
    /\ pc = "returned" =>
           Len(result_df.rows) + Len(errors_df) = Len(RowsOfCategory(df, category))

C4_Witness ==
    /\ pc = "returned"
    /\ retry_count = 2
    /\ Len(entry[1].result_df.rows) = 1
    /\ Len(entry[1].errors_df) = 1
    /\ Len(result_df.rows) = 2
    /\ errors_df = << >>

\* the API call failed with a 429 error, or with an error naming neither
\* 40005 nor 40006
ApiFailedRetryable(response) ==
    LET e == call_clova_api(response).error
    IN  e # {} /\ (Contains(e, "429") \/ ~PermanentText(e))

RetryableApiText(text) ==
    /\ Contains(text, "API call failed")
    /\ Contains(text, "429") \/ ~PermanentText(text)

\* C5: a row whose API call fails in an attempt with a 429 error, or with an
\* error naming neither 40005 nor 40006, is put in the next error set; an error
\* row that carries such a failure from the previous attempt has the API
\* called for it in this attempt; and retry_failed_rows returns with attempts
\* left only when no error row is left.
C5_RetryableRetried ==
    /\ (RetryJustCalled /\ ApiFailedRetryable(last_call[1].response)) =>
           /\ new_errors # << >>
           /\ key_of(Last(new_errors)) = key_of(errors_df[idx - 1])
    /\ ( /\ pc = "retry_for"
         /\ idx > 1
         /\ errors_df[idx - 1].error_stage = "Retry"
         /\ RetryableApiText(errors_df[idx - 1].errors) ) =>
           /\ RetryJustCalled
           /\ key_of(last_call[1]) = key_of(errors_df[idx - 1])
    /\ (pc = "returned" /\ retry_count < max_retries) => errors_df = << >>

C5_Witness ==
    /\ RetryJustCalled
    /\ retry_count = 2
    /\ errors_df[idx - 1].error_stage = "Retry"
    /\ RetryableApiText(errors_df[idx - 1].errors)
    /\ Contains(errors_df[idx - 1].errors, "429")

UniqueSeq(s) == \A i, j \in 1..Len(s) : s[i] = s[j] => i = j

\* C6: retry_failed_rows makes at most max_retries passes over the error set,
\* and when the error set passed in has one entry per (docid, category), it
\* has called the API at most once per pass made, so at most max_retries times,
\* for each of them (a 429 response adds no call).
C6_BoundedPasses ==
    InRetry =>
        /\ retry_count <= max_retries
        /\ UniqueSeq(entry[1].errors_df) =>
               \A k \in Keys : api_calls[k] <= retry_count

C6_Witness ==
    /\ pc = "returned"
    /\ max_retries = 2
    /\ retry_count = max_retries
    /\ \E k \in Keys : api_calls[k] = max_retries
    /\ last_call # << >>
    /\ last_call[1].response = HttpError("429", {})

Sorted(rows) ==
    \A i, j \in 1..Len(rows) : i < j => rows[i].docid <= rows[j].docid

DefaultIndex(frame) == \A i \in 1..Len(frame.rows) : frame.index[i] = i - 1

\* C7: when the result set given to retry_failed_rows is indexed 0..n-1 and
\* sorted ascending by docid, the result set is sorted ascending by docid
\* after every insertion of a recovered row and at return.
C7_SortedAfterInsert ==
    (InRetry /\ DefaultIndex(entry[1].result_df) /\ Sorted(entry[1].result_df.rows))
        => Sorted(result_df.rows)

C7_Witness ==
    /\ InRetry
    /\ Len(entry[1].result_df.rows) = 1
    /\ Len(result_df.rows) = 2
    /\ result_df.rows[2] = entry[1].result_df.rows[1]
    /\ result_df.rows[1].docid < result_df.rows[2].docid

\* the API call succeeded and its content is a JSON object
JsonObjectCompletion(response) ==
    LET api == call_clova_api(response)
    IN  /\ api.error = {}
        /\ HasResultMessage(api.response_json)
        /\ api.response_json.result.message.content.is_json

\* the API call succeeded and its content is plain text
PlainTextCompletion(response) ==
    LET api == call_clova_api(response)
    IN  /\ api.error = {}
        /\ HasResultMessage(api.response_json)
        /\ ~api.response_json.result.message.content.is_json

\* C8: whenever the API call for an error row succeeds in retry_failed_rows
\* and its content is a JSON object, the row is in the result set and not
\* among the errors collected for the next attempt, for any result set passed
\* in.
C8_RecoveredReinserted ==
    (RetryJustCalled /\ JsonObjectCompletion(last_call[1].response)) =>
        /\ \E i \in 1..Len(result_df.rows) :
               key_of(result_df.rows[i]) = key_of(errors_df[idx - 1])
        /\ \A i \in 1..Len(new_errors) :
               key_of(new_errors[i]) # key_of(errors_df[idx - 1])

CountDocid(records, d) ==
    Cardinality({ i \in 1..Len(records) : records[i].docid = d })

\* C9: process_dataframe takes the rows of the requested category, each once
\* and in input order, makes one API call for each whatever became of the rows
\* before, and leaves one record for each, in results or in errors; rows of
\* other categories get no call and no record.
C9_EveryRowOnce ==
    LET want == RowsOfCategory(df, category)
    IN  /\ pc = "process_for" =>
               /\ visited = SubSeq(want, 1, idx - 1)
               /\ Len(results) + Len(errors) = idx - 1
        /\ pc = "have_outputs" =>
               /\ visited = want
               /\ \A k \in Keys :
                      api_calls[k] =
                          Cardinality({ i \in 1..Len(want) : key_of(want[i]) = k })
               /\ Len(result_df.rows) + Len(errors_df) = Len(want)
               /\ \A d \in Docids :
                      CountDocid(result_df.rows, d) + CountDocid(errors_df, d)
                          = CountDocid(want, d)
               /\ \A i \in 1..Len(result_df.rows) :
                      result_df.rows[i].category = category
               /\ \A i \in 1..Len(errors_df) : errors_df[i].category = category

C9_Witness ==
    /\ pc = "have_outputs"
    /\ Len(visited) = 2
    /\ Len(result_df.rows) = 1
    /\ Len(errors_df) = 1
    /\ errors_df[1].docid = visited[1].docid
    /\ result_df.rows[1].docid = visited[2].docid

\* the three fields a completion content carries, read from the JSON object or
\* from lines 0, 2 and 4 of the text
FieldsIn(content) ==
    IF content.is_json
    THEN [ summary |-> content.json.summary, pred |-> content.json.pred,
           reason |-> content.json.reason ]
    ELSE [ summary |-> field_of_line(content.lines[1], "summary:"),
           pred    |-> field_of_line(content.lines[3], "pred:"),
           reason  |-> field_of_line(content.lines[5], "reason:") ]

ContentOf(response) == response.json.result.message.content

Carries(record, fields) ==
    /\ record.summary = fields.summary
    /\ record.pred = fields.pred
    /\ record.reason = fields.reason

\* C10 as stated: in process_dataframe and retry_failed_rows a completion
\* whose content is a JSON object and one whose content is plain text with the
\* fields on fixed lines both yield a result row carrying the three fields.
C10_BothShapesYieldResult ==
    /\ ( /\ BatchJustCalled
         /\ \/ JsonObjectCompletion(last_call[1].response)
            \/ PlainTextCompletion(last_call[1].response) ) =>
           /\ results # << >>
           /\ Last(results).docid = last_call[1].docid
           /\ Carries(Last(results), FieldsIn(ContentOf(last_call[1].response)))
    /\ ( /\ RetryJustCalled
         /\ PlainTextCompletion(last_call[1].response) ) =>
           \E i \in 1..Len(result_df.rows) :
               /\ key_of(result_df.rows[i]) = key_of(last_call[1])
               /\ Carries(result_df.rows[i],
                          FieldsIn(ContentOf(last_call[1].response)))

\* C10, amended: in process_dataframe a JSON object content yields a result
\* row carrying its three fields and a plain-text content yields an error
\* record ("Not a valid JSON"); in retry_failed_rows a plain-text content
\* yields an error record and an Error log entry, and a row logged as Success
\* had a JSON object content and is in the result set with its three fields;
\* process_single_row shows the three fields of both shapes.
C10_JsonParsedTextRejected ==
    /\ (BatchJustCalled /\ JsonObjectCompletion(last_call[1].response)) =>
           /\ results # << >>
           /\ Last(results).docid = last_call[1].docid
           /\ Carries(Last(results), FieldsIn(ContentOf(last_call[1].response)))
    /\ (BatchJustCalled /\ PlainTextCompletion(last_call[1].response)) =>
           /\ errors # << >>
           /\ Last(errors).docid = last_call[1].docid
           /\ NotValidJsonText \subseteq Last(errors).errors
           /\ \A i \in 1..Len(results) : results[i].docid # last_call[1].docid
    /\ (RetryJustCalled /\ PlainTextCompletion(last_call[1].response)) =>
           /\ new_errors # << >>
           /\ key_of(Last(new_errors)) = key_of(last_call[1])
           /\ Last(new_errors).errors = NotValidJsonText
           /\ Last(current_attempt_logs).status = "Error"
    /\ (RetryJustCalled /\ Last(current_attempt_logs).status = "Success") =>
           /\ JsonObjectCompletion(last_call[1].response)
           /\ \E i \in 1..Len(result_df.rows) :
                  /\ key_of(result_df.rows[i]) = key_of(last_call[1])
                  /\ Carries(result_df.rows[i],
                             FieldsIn(ContentOf(last_call[1].response)))
    /\ ( /\ pc = "single_done"
         /\ \/ JsonObjectCompletion(last_call[1].response)
            \/ PlainTextCompletion(last_call[1].response) ) =>
           /\ console[1].error = {}
           /\ Carries(console[1], FieldsIn(ContentOf(last_call[1].response)))

C10_Witness ==
    /\ RetryJustCalled
    /\ PlainTextCompletion(last_call[1].response)
    /\ Last(current_attempt_logs).status = "Error"
    /\ result_df.columns

\* the error text call_clova_api returned in the pass that just ended
LastApiError == call_clova_api(last_call[1].response).error

\* C11: in retry_failed_rows an API error text containing 40005 or 40006
\* always takes the skip branch, also when the text contains 429 elsewhere:
\* the row is logged as an error, its error record keeps the API's text, and
\* the function does not wait before the next row.
C11_PermanentTakesSkipBranch ==
    (RetryJustCalled /\ PermanentText(LastApiError)) =>
        /\ Last(current_attempt_logs).status = "Error"
        /\ Last(new_errors).errors = LastApiError
        /\ slept = 0

\* df has no row for the pair k
NoRowFor(k) == \A i \in 1..Len(df) : key_of(df[i]) # k

\* how many records of a frame are for the pair k
CountKey(records, k) ==
    Cardinality({ i \in 1..Len(records) : key_of(records[i]) = k })

EntryCount(k) ==
    Cardinality({ i \in 1..Len(entry[1].errors_df) : entry[1].errors_df[i] = k })

\* C12: in retry_failed_rows an error row whose (docid, category) has no row
\* in df never causes an API call; every attempt logs it with status Error
\* and carries it into the next error set, so it is in the returned error
\* set as often as in the error set passed in.
C12_UnmatchedCarried ==
    InRetry =>
        \A k \in Keys : NoRowFor(k) =>
            /\ api_calls[k] = 0
            /\ \A i \in 1..Len(all_logs) :
                   key_of(all_logs[i]) = k => all_logs[i].status = "Error"
            /\ pc \in {"retry_while", "returned"} =>
                   /\ CountKey(errors_df, k) = EntryCount(k)
                   /\ CountKey(all_logs, k) = retry_count * EntryCount(k)
            /\ pc = "retry_for" =>
                   CountKey(new_errors, k)
                       + CountKey(SubSeq(errors_df, idx, Len(errors_df)), k)
                       = EntryCount(k)
            /\ (pc = "retry_for" /\ idx > 1 /\ key_of(errors_df[idx - 1]) = k) =>
                   /\ ~RetryJustCalled
                   /\ key_of(Last(new_errors)) = k
                   /\ Last(new_errors).errors = NoMatchText
                   /\ key_of(Last(current_attempt_logs)) = k
                   /\ Last(current_attempt_logs).status = "Error"

C12_Witness ==
    /\ pc = "returned"
    /\ retry_count = 2
    /\ Len(result_df.rows) > Len(entry[1].result_df.rows)
    /\ \E i \in 1..Len(errors_df) :
           /\ NoRowFor(key_of(errors_df[i]))
           /\ errors_df[i].errors = NoMatchText
    /\ \E k \in Keys : api_calls[k] > 0

\* no (docid, category) occurs twice in the records
NoPairTwice(records) ==
    \A i, j \in 1..Len(records) :
        key_of(records[i]) = key_of(records[j]) => i = j

\* no (docid, category) occurs in both
NoPairInBoth(rows, records) ==
    \A i \in 1..Len(rows), j \in 1..Len(records) :
        key_of(rows[i]) # key_of(records[j])

\* the error set passed in has no pair twice and none that the result set
\* passed in holds
EntryErrorsFresh ==
    /\ UniqueSeq(entry[1].errors_df)
    /\ \A i \in 1..Len(entry[1].result_df.rows), j \in 1..Len(entry[1].errors_df) :
           key_of(entry[1].result_df.rows[i]) # entry[1].errors_df[j]

\* within an attempt: the errors collected for the next attempt and the
\* error rows the loop has not visited yet
PendingErrors == new_errors \o SubSeq(errors_df, idx, Len(errors_df))

\* C13 as stated: if the error set passed to retry_failed_rows has no
\* (docid, category) twice and none of its pairs is in the result set passed
\* in, then in every state of the invocation no pair is twice in the result
\* set, none twice in the error set and none in both.
C13_PairsNeverRepeated ==
    (InRetry /\ EntryErrorsFresh) =>
        /\ NoPairTwice(result_df.rows)
        /\ NoPairTwice(errors_df)
        /\ NoPairInBoth(result_df.rows, errors_df)

\* C13, amended: if moreover the result set passed in has no pair twice,
\* then before and after every attempt and at return no pair is twice in the
\* result set, none twice in the error set and none in both; within an
\* attempt the same holds of the result set and the errors collected so far
\* together with the error rows not yet visited.
C13_PairsUniqueBetweenAttempts ==
    (InRetry /\ EntryErrorsFresh /\ NoPairTwice(entry[1].result_df.rows)) =>
        /\ NoPairTwice(result_df.rows)
        /\ pc \in {"retry_while", "returned"} =>
               /\ NoPairTwice(errors_df)
               /\ NoPairInBoth(result_df.rows, errors_df)
        /\ pc = "retry_for" =>
               /\ NoPairTwice(PendingErrors)
               /\ NoPairInBoth(result_df.rows, PendingErrors)

C13_Witness ==
    /\ pc = "returned"
    /\ retry_count = 2
    /\ EntryErrorsFresh
    /\ Len(entry[1].result_df.rows) = 1
    /\ Len(entry[1].errors_df) = 2
    /\ Len(result_df.rows) = 2
    /\ Len(errors_df) = 1

\* rows holds the rows of old, unchanged and in their order, and between
\* them only rows for pairs of the error set passed in
RECURSIVE KeepsAndAdds(_, _)
KeepsAndAdds(old, rows) ==
    IF rows = << >>
    THEN old = << >>
    ELSE \/ /\ old # << >>
            /\ Head(rows) = Head(old)
            /\ KeepsAndAdds(Tail(old), Tail(rows))
         \/ /\ \E i \in 1..Len(entry[1].errors_df) :
                   key_of(Head(rows)) = entry[1].errors_df[i]
            /\ KeepsAndAdds(old, Tail(rows))

\* C14: retry_failed_rows never removes, changes or reorders the rows of the
\* result set passed in: in every state of the invocation, and at return,
\* they are all in the result set with their field values and in their
\* relative order, and every other row of the result set is for a
\* (docid, category) of the error set passed in.
C14_ResultRowsKept ==
    InRetry =>
        /\ KeepsAndAdds(entry[1].result_df.rows, result_df.rows)
        /\ Len(result_df.rows) >= Len(entry[1].result_df.rows)

C14_Witness ==
    /\ pc = "returned"
    /\ Len(entry[1].result_df.rows) = 2
    /\ Len(result_df.rows) = 3
    /\ result_df.rows[1] = entry[1].result_df.rows[1]
    /\ result_df.rows[3] = entry[1].result_df.rows[2]
    /\ result_df.rows[2] # result_df.rows[1]
    /\ result_df.rows[2] # result_df.rows[3]

\* the error set passed in, which under SpecRetry holds one record of the
\* form entry_error for each of its pairs
EntryErrors ==
    [ i \in 1..Len(entry[1].errors_df) |-> entry_error(entry[1].errors_df[i]) ]

\* C15: when the error set passed to retry_failed_rows is empty or
\* max_retries is 0, the function returns without an attempt, an API call or
\* a sleep, with the result set and the error set it was given and an empty
\* log; and no attempt is ever started on an empty error set, so none
\* follows an attempt that left no error.
C15_NothingToRetry ==
    /\ (pc = "returned" /\ (entry[1].errors_df = << >> \/ max_retries = 0)) =>
           /\ retry_count = 0
           /\ attempt_sizes = << >>
           /\ api_calls = NoCalls
           /\ last_call = << >>
           /\ slept = 0
           /\ result_df = entry[1].result_df
           /\ errors_df = EntryErrors
           /\ all_logs = << >>
    /\ pc = "retry_for" => errors_df # << >>
    /\ InRetry => \A i \in 1..Len(attempt_sizes) : attempt_sizes[i] > 0
    /\ (pc = "retry_while" /\ retry_count > 0 /\ errors_df = << >>) =>
           ~ENABLED retry_attempt_begin

C15_Witness ==
    /\ pc = "returned"
    /\ max_retries = 0
    /\ Len(errors_df) = 2
    /\ Len(result_df.rows) = 1

RECURSIVE SumAll(_)
SumAll(sizes) == IF sizes = << >> THEN 0 ELSE Head(sizes) + SumAll(Tail(sizes))

CountStatus(logs, status) ==
    Cardinality({ i \in 1..Len(logs) : logs[i].status = status })

\* C16: the log of retry_failed_rows holds one entry for each error row of
\* each attempt made, in the rows' order, so its length at return is the sum
\* over the attempts of the size of the error set at the attempt's start; its
\* Success entries are as many as the rows added to the result set; and when
\* an attempt was made, the Error entries of the last attempt are as many as
\* the rows of the returned error set.
C16_LogAccounts ==
    InRetry =>
        /\ Len(attempt_sizes) = retry_count
        /\ pc = "retry_for" =>
               /\ Len(current_attempt_logs) = idx - 1
               /\ \A i \in 1..(idx - 1) :
                      key_of(current_attempt_logs[i]) = key_of(errors_df[i])
               /\ Len(all_logs) + Len(errors_df) = SumAll(attempt_sizes)
               /\ CountStatus(all_logs, "Success")
                      + CountStatus(current_attempt_logs, "Success")
                      = Len(result_df.rows) - Len(entry[1].result_df.rows)
               /\ CountStatus(current_attempt_logs, "Error") = Len(new_errors)
        /\ pc \in {"retry_while", "returned"} =>
               /\ Len(all_logs) = SumAll(attempt_sizes)
               /\ CountStatus(all_logs, "Success") + CountStatus(all_logs, "Error")
                      = Len(all_logs)
               /\ CountStatus(all_logs, "Success")
                      = Len(result_df.rows) - Len(entry[1].result_df.rows)
               /\ retry_count > 0 =>
                      /\ Len(current_attempt_logs) = Last(attempt_sizes)
                      /\ CountStatus(current_attempt_logs, "Error") = Len(errors_df)

C16_Witness ==
    /\ pc = "returned"
    /\ attempt_sizes = << 2, 1 >>
    /\ Len(all_logs) = 3
    /\ CountStatus(all_logs, "Success") = 1
    /\ Len(errors_df) = 1
    /\ Len(result_df.rows) = Len(entry[1].result_df.rows) + 1

====
